---- MODULE Spec2Model ----
(***************************************************************************)
(* The route-selection component App of src/index.tsx as a state machine.  *)
(*                                                                         *)
(* App is a React function component.  Its state lives in six useState     *)
(* hooks and one ref.  The program runs on a single event loop; the steps  *)
(* of the model are the tasks of that loop:                                *)
(*   - a user event (map click, button press) runs its handler and, the    *)
(*     updates of a click being synchronous, the render and the effects    *)
(*     that follow it, in one step;                                        *)
(*   - an effect, a timer callback and the continuation of an await only   *)
(*     enqueue their updates; a later task (Render) renders them.  Until   *)
(*     then the handlers and buttons of the last committed render are the  *)
(*     ones the user can reach.                                            *)
(* Handlers read the values of the render that created them (closures);    *)
(* the only state read live is matchIntervalRef and the map's layers.      *)
(* Init is the state after the map has been created (lines 32-40).         *)
(*                                                                         *)
(* src/unnamed/part_000 is the earlier variant of the component: it has    *)
(* the three selection phases only, asks a directions service that needs   *)
(* an API key from the environment, and decodes the encoded polyline of    *)
(* the answer with decodePolyline.  Its definitions carry the prefix G_;   *)
(* decodePolyline has a specification of its own (CodecSpec).              *)
(***************************************************************************)
EXTENDS Integers, Sequences, FiniteSets, TLC

\* Layer handles (markers, polylines) the map hands out in one run.
MaxLayers == 5
\* Largest number of coordinates in a provider response.
MaxCoords == 2
\* The match count at which the simulation ends (newCount >= 3).
MatchThreshold == 3

VARIABLES
    rendered,          \* the hook values of the last committed render
    base,              \* per hook: the value its pending updates rebase on
    queue,             \* per hook: the updates not yet fully rendered
    matchIntervalRef,  \* matchIntervalRef.current is non-null
    activeIntervals,   \* number of running setInterval timers
    mapLayers,         \* handles of the layers now on the Leaflet map
    fetches,           \* the fetchRoute calls that have not finished
    nextId,            \* next layer handle
    tickPending,       \* a tick's update waits for its render
    event,             \* the task that ran last
    alertShown,        \* that task showed the routing-error alert
    apiKey,            \* part_000: process.env.API_KEY is set
    codec              \* the call of decodePolyline under study

vars == <<rendered, base, queue, matchIntervalRef, activeIntervals, mapLayers,
          fetches, nextId, tickPending, event, alertShown, apiKey, codec>>

\* What the tasks of App leave alone.
environment == <<apiKey, codec>>

\* What a call of decodePolyline leaves alone.
app == <<rendered, base, queue, matchIntervalRef, activeIntervals, mapLayers,
         fetches, nextId, tickPending, event, alertShown, apiKey>>

Hooks == {"markers", "path", "eta", "isLoading", "matchedUsersCount", "selectionState"}

SelectionState == {"SELECTING_START", "SELECTING_END", "PATH_CONFIRMED",
                   "SEARCHING_FOR_MATCH", "MATCH_FOUND"}

\* path === null; a polyline is [id |-> handle, pts |-> number of coordinates]
NoPath == [id |-> 0, pts |-> 0]

selectionState == rendered.selectionState
markers == rendered.markers
path == rendered.path
eta == rendered.eta
isLoading == rendered.isLoading
matchedUsersCount == rendered.matchedUsersCount

(***************************************************************************)
(* React's update queues.  An update is [op, v, lane]: op "set" stores v,  *)
(* "append" is prev => [...prev, endMarker], "tick" is the interval's      *)
(* updater run at render time.  A render at lane "sync" applies the sync   *)
(* updates on the hook's base value and skips the default ones; the        *)
(* skipped update and all after it stay queued and are applied again, in   *)
(* order, by the render that includes them.                                *)
(***************************************************************************)
Upd(v, lane) == [op |-> "set", v |-> v, lane |-> lane]

NoUpdates == [h \in Hooks |-> <<>>]

Push(q, ups) == [h \in Hooks |-> q[h] \o ups[h]]

One(h, u) == [NoUpdates EXCEPT ![h] = <<u>>]

ApplyUpdate(s, u) ==
    CASE u.op = "set" -> u.v
      [] u.op = "append" -> s \o u.v
      [] u.op = "tick" -> s + 1

RECURSIVE Fold(_, _)
Fold(s, us) == IF us = <<>> THEN s ELSE Fold(ApplyUpdate(s, Head(us)), Tail(us))

IsSync(u) == u.lane = "sync"

Applied(us, lane) == IF lane = "sync" THEN SelectSeq(us, IsSync) ELSE us

Rest(us, lane) ==
    IF lane = "default" \/ SelectSeq(us, IsSync) = us THEN <<>> ELSE us


\* The interval's updater (lines 158-168) run on count s: the new count, and
\* whether it reached the threshold (it then clears the interval and calls
\* setSelectionState('MATCH_FOUND')).
NewCount(prevCount) == prevCount + 1

\* The threshold test with > for >=.
ReachesThresholdLate(prevCount) == NewCount(prevCount) > MatchThreshold

ReachesThreshold(prevCount) == NewCount(prevCount) >= MatchThreshold

\* Some "tick" update of us, applied in order from s, reaches the threshold.
RECURSIVE TickCompletes(_, _)
TickCompletes(s, us) ==
    IF us = <<>> THEN FALSE
    ELSE \/ Head(us).op = "tick" /\ ReachesThreshold(s)
         \/ TickCompletes(ApplyUpdate(s, Head(us)), Tail(us))

\* The markers array of the render about to commit is a new object: its last
\* applied update is new to this render, or an updater function run again.
MarkersChanged(q, lane) ==
    LET a == Applied(q.markers, lane)
    IN  /\ a # <<>>
        /\ \/ a[Len(a)].op = "append"
           \/ IF lane = "sync" THEN Len(q.markers) > Len(queue.markers)
                               ELSE a[Len(a)].lane = "default"

\* Lines 43-67: the effect registers handleMapClick unless it returns early.
ClickHandlerRegistered(r) ==
    ~(r.isLoading \/ r.selectionState = "SEARCHING_FOR_MATCH"
                  \/ r.selectionState = "MATCH_FOUND")

\* Lines 98-101: the guard of the route effect.
RouteEffectFetches(r) ==
    ~(r.selectionState # "PATH_CONFIRMED" \/ Len(r.markers) # 2)

\* The match effect starting its interval in MATCH_FOUND too.
MatchEffectStartsInMatchPhases(r) ==
    r.selectionState \in {"SEARCHING_FOR_MATCH", "MATCH_FOUND"}

\* Lines 151-152: the guard of the match-simulation effect.
MatchEffectStarts(r) == r.selectionState = "SEARCHING_FOR_MATCH"

(***************************************************************************)
(* One render at `lane` of the queues q, its commit and its effects.  ref, *)
(* act, ml, fl are the ref, the timers, the map layers and the fetches as  *)
(* the running task has left them.  Effects run when a dependency changed: *)
(* the match effect's cleanup (173-178), the route effect (98-148, which   *)
(* calls fetchRoute up to its first await) and the match effect (151-170). *)
(***************************************************************************)
Commit(q, lane, ref, act, ml, fl) ==
    LET val(h) == Fold(base[h], Applied(q[h], lane))
        fired == lane = "default" /\ TickCompletes(base.matchedUsersCount, q.matchedUsersCount)
        ref1 == IF fired THEN FALSE ELSE ref
        act1 == IF fired /\ ref THEN act - 1 ELSE act
        r1 == [h \in Hooks |-> IF h = "selectionState" /\ fired THEN "MATCH_FOUND" ELSE val(h)]
        selChanged == r1.selectionState # rendered.selectionState
        ref2 == IF selChanged THEN FALSE ELSE ref1
        act2 == IF selChanged /\ ref1 THEN act1 - 1 ELSE act1
        doFetch == (selChanged \/ MarkersChanged(q, lane)) /\ RouteEffectFetches(r1)
        doMatch == selChanged /\ MatchEffectStarts(r1)
        rest(h) == Rest(q[h], lane)
        fromEffects ==
            [h \in Hooks |->
                IF h = "isLoading" /\ doFetch THEN <<Upd(TRUE, "default")>>
                ELSE IF h = "matchedUsersCount" /\ doMatch THEN <<Upd(0, "default")>>
                ELSE <<>>]
    IN  /\ rendered' = r1
        /\ base' = [h \in Hooks |-> IF rest(h) = <<>> THEN r1[h] ELSE base[h]]
        /\ queue' = [h \in Hooks |-> rest(h) \o fromEffects[h]]
        /\ matchIntervalRef' = (IF doMatch THEN TRUE ELSE ref2)
        /\ activeIntervals' = (IF doMatch THEN act2 + 1 ELSE act2)
        /\ mapLayers' = ml
        /\ fetches' = (IF doFetch
                         THEN Append(fl, [markers |-> r1.markers, path |-> r1.path, stage |-> "fetch"])
                         ELSE fl)

\* Range of a sequence of layer handles.
Handles(ms) == {ms[i] : i \in 1..Len(ms)}

(***************************************************************************)
(* handleReset (70-95) as created by the render whose markers and path are *)
(* cl.markers and cl.path, called at `lane`: what it leaves of q, of the   *)
(* ref and the timers, and of the map ml.                                  *)
(***************************************************************************)
ResetUpdates(cl, lane) ==
    [h \in Hooks |->
        CASE h = "markers" -> <<Upd(<<>>, lane)>>
          [] h = "path" -> IF cl.path # NoPath THEN <<Upd(NoPath, lane)>> ELSE <<>>
          [] h = "eta" -> <<Upd("null", lane)>>
          [] h = "matchedUsersCount" -> <<Upd(0, lane)>>
          [] h = "selectionState" -> <<Upd("SELECTING_START", lane)>>
          [] h = "isLoading" -> <<Upd(FALSE, lane)>>]

handleReset(cl, lane, q, ref, act, ml) ==
    [q |-> Push(q, ResetUpdates(cl, lane)),
     ref |-> FALSE,
     act |-> IF ref THEN act - 1 ELSE act,
     ml |-> (ml \ Handles(cl.markers)) \ (IF cl.path # NoPath THEN {cl.path.id} ELSE {})]

(***************************************************************************)
(* decodePolyline (part_000, lines 10-38).  A string is the sequence of    *)
(* its character codes.  The bit operators work on 32-bit integers; the    *)
(* accumulators lat and lng are numbers.  A coordinate lat / 1e5 is held   *)
(* as the integer lat, its number of 1e-5 degrees.                         *)
(***************************************************************************)
\* The least 32-bit integer.
MinInt32 == -2147483647 - 1

\* a | b on 32-bit integers.
RECURSIVE BitOr(_, _)
BitOr(a, b) ==
    IF a = 0 THEN b
    ELSE IF b = 0 THEN a
    ELSE IF a = -1 \/ b = -1 THEN -1
    ELSE 2 * BitOr(a \div 2, b \div 2) + (IF a % 2 = 1 \/ b % 2 = 1 THEN 1 ELSE 0)

\* x << shift: the shift count is taken modulo 32 and the bits pushed out
\* on the left are lost.
ShiftLeft(x, shift) ==
    LET s == shift % 32
    IN  IF s = 0 THEN x
        ELSE (x % (2 ^ (31 - s))) * (2 ^ s)
               + (IF (x \div (2 ^ (31 - s))) % 2 = 1 THEN MinInt32 ELSE 0)

\* A number is NaN or an integer.
NaN == [nan |-> TRUE, v |-> 0]
Num(n) == [nan |-> FALSE, v |-> n]

\* encoded.charCodeAt(index): NaN at or past the end of the string.
charCodeAt(s, index) == IF index < Len(s) THEN Num(s[index + 1]) ELSE NaN

\* x - n
Minus(x, n) == IF x.nan THEN NaN ELSE Num(x.v - n)

\* b & 0x1f: the operand is converted to a 32-bit integer, NaN to 0.
LowSixBits(b) == IF b.nan THEN 0 ELSE b.v % 64

LowFiveBits(b) == IF b.nan THEN 0 ELSE b.v % 32

\* b >= 0x20: false for NaN.
HasContinuation(b) == ~b.nan /\ b.v >= 32

\* One do-while loop (lines 17-21, 26-30), entered with shift and result.
RECURSIVE ReadGroup(_, _, _, _)
ReadGroup(s, index, shift, result) ==
    LET b == Minus(charCodeAt(s, index), 63)
        r == BitOr(result, ShiftLeft(LowFiveBits(b), shift))
    IN  IF HasContinuation(b)
          THEN ReadGroup(s, index + 1, shift + 5, r)
          ELSE [result |-> r, index |-> index + 1]

\* (result & 1) ? ~(result >> 1) : (result >> 1), with the complement left
\* out: every delta comes out non-negative.
UnZigZagUnsigned(result) == result \div 2

\* (result & 1) ? ~(result >> 1) : (result >> 1)
UnZigZag(result) ==
    IF result % 2 = 1 THEN -(result \div 2) - 1 ELSE result \div 2

\* The while loop (lines 15-36).  `index` in the value returned is the
\* index after the last charCodeAt call.
RECURSIVE DecodeFrom(_, _, _, _, _)
DecodeFrom(s, index, lat, lng, points) ==
    IF index < Len(s)
      THEN LET latGroup == ReadGroup(s, index, 0, 0)
               lat2 == lat + UnZigZag(latGroup.result)
               lngGroup == ReadGroup(s, latGroup.index, 0, 0)
               lng2 == lng + UnZigZag(lngGroup.result)
           IN  DecodeFrom(s, lngGroup.index, lat2, lng2, Append(points, <<lat2, lng2>>))
      ELSE [path |-> points, index |-> index]

\* The function has no throw statement and calls nothing that throws: every
\* call returns a path.
decodePolyline(encoded) ==
    LET r == DecodeFrom(encoded, 0, 0, 0, <<>>)
    IN  [outcome |-> "returned", path |-> r.path, index |-> r.index]

\* A call not yet made: `source` is the route the input was encoded from.
NotCalled(source, encoded) ==
    [source |-> source, encoded |-> encoded, outcome |-> "not called",
     path |-> <<>>, index |-> 0]

\* App is mounted and its map created; nothing has happened yet.
Mounted ==
    /\ rendered = [markers |-> <<>>, path |-> NoPath, eta |-> "null", isLoading |-> FALSE,
                   matchedUsersCount |-> 0, selectionState |-> "SELECTING_START"]
    /\ base = rendered
    /\ queue = NoUpdates
    /\ matchIntervalRef = FALSE
    /\ activeIntervals = 0
    /\ mapLayers = {}
    /\ fetches = <<>>
    /\ nextId = 1
    /\ tickPending = FALSE
    /\ event = "init"
    /\ alertShown = FALSE

\* index.tsx holds its key as a constant (line 8) and has no decoder.
Init ==
    /\ Mounted
    /\ apiKey = TRUE
    /\ codec = NotCalled(<<>>, <<>>)

(***************************************************************************)
(* The user clicks the map.  handleMapClick (46-60) runs if the effect has *)
(* registered it; it reads the selectionState of its render.               *)
(***************************************************************************)
\* handleMapClick without its tests of the phase: whatever is not the first
\* point is taken as the second.
handleMapClickAnyPhase(s, m) ==
    IF s = "SELECTING_START"
      THEN Push(One("markers", Upd(<<m>>, "sync")),
                One("selectionState", Upd("SELECTING_END", "sync")))
      ELSE Push(One("markers", [op |-> "append", v |-> <<m>>, lane |-> "sync"]),
                One("selectionState", Upd("PATH_CONFIRMED", "sync")))

handleMapClick(s, m) ==
    IF s = "SELECTING_START" \/ s = "SELECTING_END"
      THEN IF s = "SELECTING_START"
             THEN Push(One("markers", Upd(<<m>>, "sync")),
                       One("selectionState", Upd("SELECTING_END", "sync")))
           ELSE IF s = "SELECTING_END"
             THEN Push(One("markers", [op |-> "append", v |-> <<m>>, lane |-> "sync"]),
                       One("selectionState", Upd("PATH_CONFIRMED", "sync")))
           ELSE NoUpdates
      ELSE NoUpdates

\* createMarker (181-190) ran: the handler enqueued a markers update.
CreatesMarker(ups) == ups.markers # <<>>

MapClick ==
    /\ event' = "mapClick"
    /\ alertShown' = FALSE
    /\ LET ups == handleMapClick(selectionState, nextId)
       IN  IF ClickHandlerRegistered(rendered) /\ CreatesMarker(ups)
             THEN /\ nextId + (IF selectionState = "SELECTING_START" THEN 2 ELSE 1) <= MaxLayers
                  /\ Commit(Push(queue, ups), "sync",
                            matchIntervalRef, activeIntervals, mapLayers \cup {nextId}, fetches)
                  /\ nextId' = nextId + 1
                  /\ UNCHANGED tickPending
             ELSE UNCHANGED <<rendered, base, queue, matchIntervalRef, activeIntervals,
                              mapLayers, fetches, nextId, tickPending>>
    /\ UNCHANGED environment

\* Lines 218-220: the confirm button exists in PATH_CONFIRMED, disabled={isLoading}.
handleConfirm == One("selectionState", Upd("SEARCHING_FOR_MATCH", "sync"))

Confirm ==
    /\ selectionState = "PATH_CONFIRMED" /\ ~isLoading
    /\ event' = "confirm"
    /\ alertShown' = FALSE
    /\ Commit(Push(queue, handleConfirm), "sync",
              matchIntervalRef, activeIntervals, mapLayers, fetches)
    /\ UNCHANGED <<nextId, tickPending, environment>>

\* A button whose onClick is handleReset is pressed.
PressReset(name) ==
    LET cl == [markers |-> markers, path |-> path]
        r == handleReset(cl, "sync", queue, matchIntervalRef, activeIntervals, mapLayers)
    IN  /\ event' = name
        /\ alertShown' = FALSE
        /\ Commit(r.q, "sync", r.ref, r.act, r.ml, fetches)
        /\ UNCHANGED <<nextId, tickPending, environment>>

\* Lines 221-223: "reset-button", disabled={isLoading}.
Reset == selectionState = "PATH_CONFIRMED" /\ ~isLoading /\ PressReset("reset")

\* Lines 234-236: "cancel-button".
Cancel == selectionState = "SEARCHING_FOR_MATCH" /\ PressReset("cancel")

\* Lines 244-246: the button that ends the walk.
End == selectionState = "MATCH_FOUND" /\ PressReset("end")


NothingPending == \A h \in Hooks : queue[h] = <<>>

(***************************************************************************)
(* The interval fires (157-169): setMatchedUsersCount(updater).  React may *)
(* run the updater at once when nothing else is queued (`eager`, on the    *)
(* last rendered count) or leave it to the render; the program cannot tell *)
(* which.  The period is 3000 ms: a tick's update is rendered before the   *)
(* next tick.                                                              *)
(***************************************************************************)
Tick ==
    /\ activeIntervals > 0
    /\ ~tickPending
    /\ event' = "tick"
    /\ alertShown' = FALSE
    /\ tickPending' = TRUE
    /\ \E eager \in BOOLEAN :
         IF eager
           THEN /\ NothingPending
                /\ queue' = Push(queue,
                      [h \in Hooks |->
                         IF h = "matchedUsersCount"
                           THEN <<Upd(NewCount(matchedUsersCount), "default")>>
                         ELSE IF h = "selectionState" /\ ReachesThreshold(matchedUsersCount)
                           THEN <<Upd("MATCH_FOUND", "default")>>
                         ELSE <<>>])
                /\ matchIntervalRef' = (IF ReachesThreshold(matchedUsersCount)
                                          THEN FALSE ELSE matchIntervalRef)
                /\ activeIntervals' = (IF ReachesThreshold(matchedUsersCount) /\ matchIntervalRef
                                         THEN activeIntervals - 1 ELSE activeIntervals)
           ELSE /\ queue' = Push(queue, One("matchedUsersCount",
                                            [op |-> "tick", v |-> 0, lane |-> "default"]))
                /\ UNCHANGED <<matchIntervalRef, activeIntervals>>
    /\ UNCHANGED <<rendered, base, mapLayers, fetches, nextId, environment>>

\* React renders the queued updates of the effects, timers and continuations.
Render ==
    /\ ~NothingPending
    /\ event' = "render"
    /\ alertShown' = FALSE
    /\ tickPending' = FALSE
    /\ Commit(queue, "default", matchIntervalRef, activeIntervals, mapLayers, fetches)
    /\ UNCHANGED <<nextId, environment>>

RemoveAt(seq, i) == SubSeq(seq, 1, i - 1) \o SubSeq(seq, i + 1, Len(seq))

(***************************************************************************)
(* fetchRoute (103-145) after its first await.  The catch block (138-141)  *)
(* alerts and calls the handleReset of the render that started the fetch;  *)
(* finally (142-144) sets isLoading false.  q and ml are the queues and    *)
(* the map as the try block left them.                                     *)
(***************************************************************************)
CatchAndFinally(i, q, ml) ==
    LET r == handleReset(fetches[i], "default", q, matchIntervalRef, activeIntervals, ml)
    IN  /\ alertShown' = TRUE
        /\ queue' = Push(r.q, One("isLoading", Upd(FALSE, "default")))
        /\ matchIntervalRef' = r.ref
        /\ activeIntervals' = r.act
        /\ mapLayers' = r.ml
        /\ fetches' = RemoveAt(fetches, i)

FetchOutcomes == {"ok", "network_error", "http_error"}

\* await fetch(url) settles (111-114): rejected, response.ok false, or ok.
FetchSettles(i, outcome) ==
    /\ fetches[i].stage = "fetch"
    /\ event' = "fetchSettles"
    /\ IF outcome = "ok"
         THEN /\ fetches' = [fetches EXCEPT ![i].stage = "json"]
              /\ alertShown' = FALSE
              /\ UNCHANGED <<queue, matchIntervalRef, activeIntervals, mapLayers>>
         ELSE CatchAndFinally(i, queue, mapLayers)
    /\ UNCHANGED <<rendered, base, nextId, tickPending, environment>>

\* What response.json() can give: a rejection, a body without paths, a path
\* without points, or a path ("route") of n coordinates.
JsonOutcomes ==
    {[kind |-> k, n |-> 0] : k \in {"parse_error", "no_paths", "no_points"}}
        \cup {[kind |-> "route", n |-> n] : n \in 0..MaxCoords}

\* polyline.getBounds().pad(0.2) (134) reads the corners of the bounds, which
\* a polyline without coordinates does not have.
FitBoundsThrows(n) == n = 0

\* await response.json() settles (115-137).
JsonSettles(i, outcome) ==
    /\ fetches[i].stage = "json"
    /\ event' = "jsonSettles"
    /\ IF outcome.kind # "route"
         THEN /\ CatchAndFinally(i, queue, mapLayers)
              /\ UNCHANGED nextId
         ELSE LET polyline == [id |-> nextId, pts |-> outcome.n]
                  drawn == Push(queue, [h \in Hooks |->
                              IF h = "path" THEN <<Upd(polyline, "default")>>
                              ELSE IF h = "eta" THEN <<Upd("eta", "default")>>
                              ELSE <<>>])
              IN  /\ nextId <= MaxLayers
                  /\ nextId' = nextId + 1
                  /\ IF FitBoundsThrows(outcome.n)
                       THEN CatchAndFinally(i, drawn, mapLayers \cup {nextId})
                       ELSE /\ queue' = Push(drawn, One("isLoading", Upd(FALSE, "default")))
                            /\ mapLayers' = mapLayers \cup {nextId}
                            /\ fetches' = RemoveAt(fetches, i)
                            /\ alertShown' = FALSE
                            /\ UNCHANGED <<matchIntervalRef, activeIntervals>>
    /\ UNCHANGED <<rendered, base, tickPending, environment>>

Next ==
    \/ MapClick
    \/ Confirm
    \/ Reset
    \/ Cancel
    \/ End
    \/ Tick
    \/ Render
    \/ \E i \in 1..Len(fetches) : \E o \in FetchOutcomes : FetchSettles(i, o)
    \/ \E i \in 1..Len(fetches) : \E o \in JsonOutcomes : JsonSettles(i, o)

Spec == Init /\ [][Next]_vars

\* The event loop runs every task that is ready: React renders the updates
\* it has queued, and a promise that is awaited settles (the network call
\* returns or fails).
Fairness ==
    /\ WF_vars(Render)
    /\ WF_vars(\E i \in 1..Len(fetches) : \E o \in FetchOutcomes : FetchSettles(i, o))
    /\ WF_vars(\E i \in 1..Len(fetches) : \E o \in JsonOutcomes : JsonSettles(i, o))

FairSpec == Spec /\ Fairness

(***************************************************************************)
(* decodePolyline on its own: the input is a string a reference encoder    *)
(* made from a route, or a prefix of one.                                  *)
(***************************************************************************)
\* Longest route encoded.
MaxPoints == 2

\* "_p~iF~ps|U_ulLnnqC_mqNvxq`@"
Fixture == <<95, 112, 126, 105, 70, 126, 112, 115, 124, 85, 95, 117, 108, 76,
             110, 110, 113, 67, 95, 109, 113, 78, 118, 120, 113, 96, 64>>

\* (38.5, -120.2), (40.7, -120.95), (43.252, -126.453)
FixtureRoute == << <<3850000, -12020000>>, <<4070000, -12095000>>, <<4325200, -12645300>> >>

\* Points in units of 1e-5 degree, the corners of the globe among them.
SamplePoints ==
    {<<0, 0>>, <<-1, 16>>, <<3850000, -12020000>>, <<4070000, -12095000>>,
     <<9000000, 18000000>>, <<-9000000, -18000000>>}

Routes == UNION {[1..n -> SamplePoints] : n \in 0..MaxPoints} \cup {FixtureRoute}

\* The reference encoder: deltas, zig-zag, 5-bit groups low group first, each
\* plus 0x20 when another follows, plus 63.
ZigZag(v) == IF v < 0 THEN -2 * v - 1 ELSE 2 * v

RECURSIVE Groups(_)
Groups(z) ==
    IF z >= 32 THEN <<32 + (z % 32) + 63>> \o Groups(z \div 32) ELSE <<z + 63>>

RECURSIVE EncodeFrom(_, _, _)
EncodeFrom(route, lat, lng) ==
    IF route = <<>> THEN <<>>
    ELSE LET p == Head(route)
         IN  Groups(ZigZag(p[1] - lat)) \o Groups(ZigZag(p[2] - lng))
               \o EncodeFrom(Tail(route), p[1], p[2])

Encode(route) == EncodeFrom(route, 0, 0)

CodecInit ==
    /\ Mounted
    /\ apiKey = TRUE
    /\ \E route \in Routes : \E keep \in 0..Len(Encode(route)) :
          codec = NotCalled(route, SubSeq(Encode(route), 1, keep))

\* decodePolyline(encoded) is called and returns.
Decode ==
    /\ codec.outcome = "not called"
    /\ LET r == decodePolyline(codec.encoded)
       IN  codec' = [codec EXCEPT !.outcome = r.outcome, !.path = r.path, !.index = r.index]
    /\ UNCHANGED app

CodecNext == Decode

CodecSpec == CodecInit /\ [][CodecNext]_vars

(***************************************************************************)
(* App of part_000.  Its hooks are those of index.tsx less the match count *)
(* and the interval ref, which stay as Mounted leaves them; its            *)
(* handleMapClick (73-87) is handleMapClick above, word for word.          *)
(***************************************************************************)
\* Line 71: the click effect returns early only while loading.
G_ClickHandlerRegistered(r) == ~r.isLoading

\* Line 119: the guard of the route effect.
G_RouteEffectFetches(r) == r.selectionState = "PATH_CONFIRMED" /\ Len(r.markers) = 2

\* handleReset (97-114) of the render whose markers and path are cl.markers
\* and cl.path, called at `lane`: what it leaves of q and of the map ml.
G_handleReset(cl, lane, q, ml) ==
    [q |-> Push(q, [h \in Hooks |->
                CASE h = "markers" -> <<Upd(<<>>, lane)>>
                  [] h = "path" -> IF cl.path # NoPath THEN <<Upd(NoPath, lane)>> ELSE <<>>
                  [] h = "eta" -> <<Upd("null", lane)>>
                  [] h = "selectionState" -> <<Upd("SELECTING_START", lane)>>
                  [] h = "isLoading" -> <<Upd(FALSE, lane)>>
                  [] OTHER -> <<>>]),
     ml |-> (ml \ Handles(cl.markers)) \ (IF cl.path # NoPath THEN {cl.path.id} ELSE {})]

\* fetchRoute without a key, returning without the call of handleReset.
G_MissingKeyReturns(cl, ml) ==
    [q |-> One("isLoading", Upd(TRUE, "default")), ml |-> ml]

\* fetchRoute without a key (124-132): setIsLoading(true), the alert,
\* handleReset, return.
G_MissingKey(cl, ml) ==
    G_handleReset(cl, "default", One("isLoading", Upd(TRUE, "default")), ml)

\* One render at `lane` of the queues q, its commit and its effects: the
\* route effect (118-176) calls fetchRoute, which runs to its return or to
\* its first await.
G_Commit(q, lane, ml, fl) ==
    LET r1 == [h \in Hooks |-> Fold(base[h], Applied(q[h], lane))]
        selChanged == r1.selectionState # rendered.selectionState
        doFetch == (selChanged \/ MarkersChanged(q, lane)) /\ G_RouteEffectFetches(r1)
        rest(h) == Rest(q[h], lane)
        cl == [markers |-> r1.markers, path |-> r1.path]
        noKey == G_MissingKey(cl, ml)
        fromEffects == IF ~doFetch THEN NoUpdates
                       ELSE IF apiKey THEN One("isLoading", Upd(TRUE, "default"))
                       ELSE noKey.q
    IN  /\ rendered' = r1
        /\ base' = [h \in Hooks |-> IF rest(h) = <<>> THEN r1[h] ELSE base[h]]
        /\ queue' = [h \in Hooks |-> rest(h) \o fromEffects[h]]
        /\ mapLayers' = (IF doFetch /\ ~apiKey THEN noKey.ml ELSE ml)
        /\ fetches' = (IF doFetch /\ apiKey
                         THEN Append(fl, [markers |-> r1.markers, path |-> r1.path,
                                          stage |-> "fetch"])
                         ELSE fl)
        /\ alertShown' = (doFetch /\ ~apiKey)
        /\ UNCHANGED <<matchIntervalRef, activeIntervals, tickPending, environment>>

\* The environment may or may not hold API_KEY.
G_Init ==
    /\ Mounted
    /\ apiKey \in BOOLEAN
    /\ codec = NotCalled(<<>>, <<>>)

G_MapClick ==
    /\ event' = "mapClick"
    /\ LET ups == handleMapClick(selectionState, nextId)
       IN  IF G_ClickHandlerRegistered(rendered) /\ CreatesMarker(ups)
             THEN /\ nextId + (IF selectionState = "SELECTING_START" THEN 2 ELSE 1) <= MaxLayers
                  /\ G_Commit(Push(queue, ups), "sync", mapLayers \cup {nextId}, fetches)
                  /\ nextId' = nextId + 1
             ELSE /\ alertShown' = FALSE
                  /\ UNCHANGED <<rendered, base, queue, matchIntervalRef, activeIntervals,
                                 mapLayers, fetches, nextId, tickPending, environment>>

\* Lines 189-192 and 214: handleConfirm shows a message and changes nothing.
G_Confirm ==
    /\ selectionState = "PATH_CONFIRMED" /\ ~isLoading
    /\ event' = "confirm"
    /\ alertShown' = FALSE
    /\ UNCHANGED <<rendered, base, queue, matchIntervalRef, activeIntervals,
                   mapLayers, fetches, nextId, tickPending, environment>>

\* Line 217: "reset-button", disabled={isLoading}, on the sheet shown in
\* PATH_CONFIRMED (207).
G_Reset ==
    /\ selectionState = "PATH_CONFIRMED" /\ ~isLoading
    /\ event' = "reset"
    /\ LET r == G_handleReset([markers |-> markers, path |-> path], "sync", queue, mapLayers)
       IN  G_Commit(r.q, "sync", r.ml, fetches)
    /\ UNCHANGED nextId

G_Render ==
    /\ ~NothingPending
    /\ event' = "render"
    /\ G_Commit(queue, "default", mapLayers, fetches)
    /\ UNCHANGED nextId

\* The catch block (165-168), or the else branch (160-164), and finally
\* (169-171): an alert, the handleReset of the render that started the
\* fetch, setIsLoading(false).
G_AlertResetFinally(i, q, ml) ==
    LET r == G_handleReset(fetches[i], "default", q, ml)
    IN  /\ alertShown' = TRUE
        /\ queue' = Push(r.q, One("isLoading", Upd(FALSE, "default")))
        /\ mapLayers' = r.ml
        /\ fetches' = RemoveAt(fetches, i)

\* Line 137 has no test of response.ok: an HTTP error goes on to json().
G_FetchOutcomes == {"response", "network_error"}

G_FetchSettles(i, outcome) ==
    /\ fetches[i].stage = "fetch"
    /\ event' = "fetchSettles"
    /\ IF outcome = "response"
         THEN /\ fetches' = [fetches EXCEPT ![i].stage = "json"]
              /\ alertShown' = FALSE
              /\ UNCHANGED <<queue, mapLayers>>
         ELSE G_AlertResetFinally(i, queue, mapLayers)
    /\ UNCHANGED <<rendered, base, nextId, matchIntervalRef, activeIntervals,
                   tickPending, environment>>

\* What response.json() can give: a rejection, a status other than 'OK',
\* 'OK' without routes, or a route: its encoded polyline and whether it has
\* the leg the duration is read from.
G_JsonOutcomes ==
    {[kind |-> k, points |-> <<>>, leg |-> FALSE] :
        k \in {"parse_error", "not_ok", "no_routes"}}
      \cup {[kind |-> "route", points |-> e, leg |-> l] :
              e \in {<<>>, Fixture}, l \in BOOLEAN}

G_JsonSettles(i, outcome) ==
    /\ fetches[i].stage = "json"
    /\ event' = "jsonSettles"
    /\ IF outcome.kind # "route"
         THEN /\ G_AlertResetFinally(i, queue, mapLayers)
              /\ UNCHANGED nextId
         ELSE LET decodedPath == decodePolyline(outcome.points).path
                  polyline == [id |-> nextId, pts |-> Len(decodedPath)]
                  drawn == Push(queue, One("path", Upd(polyline, "default")))
                  timed == Push(drawn, One("eta", Upd("eta", "default")))
              IN  /\ nextId <= MaxLayers
                  /\ nextId' = nextId + 1
                  /\ IF ~outcome.leg
                       THEN G_AlertResetFinally(i, drawn, mapLayers \cup {nextId})
                     ELSE IF FitBoundsThrows(polyline.pts)
                       THEN G_AlertResetFinally(i, timed, mapLayers \cup {nextId})
                     ELSE /\ queue' = Push(timed, One("isLoading", Upd(FALSE, "default")))
                          /\ mapLayers' = mapLayers \cup {nextId}
                          /\ fetches' = RemoveAt(fetches, i)
                          /\ alertShown' = FALSE
    /\ UNCHANGED <<rendered, base, matchIntervalRef, activeIntervals, tickPending,
                   environment>>

G_Next ==
    \/ G_MapClick
    \/ G_Confirm
    \/ G_Reset
    \/ G_Render
    \/ \E i \in 1..Len(fetches) : \E o \in G_FetchOutcomes : G_FetchSettles(i, o)
    \/ \E i \in 1..Len(fetches) : \E o \in G_JsonOutcomes : G_JsonSettles(i, o)

G_Spec == G_Init /\ [][G_Next]_vars

G_Fairness ==
    /\ WF_vars(G_Render)
    /\ WF_vars(\E i \in 1..Len(fetches) : \E o \in G_FetchOutcomes : G_FetchSettles(i, o))
    /\ WF_vars(\E i \in 1..Len(fetches) : \E o \in G_JsonOutcomes : G_JsonSettles(i, o))

G_FairSpec == G_Spec /\ G_Fairness


(***************************************************************************)
(* Claims                                                                  *)
(***************************************************************************)

\* The fetch i was started by an episode that a reset has since ended: the
\* markers its render held are no longer the rendered ones.
Stale(i) == fetches[i].markers # markers

\* C1: when a fetch that a reset has overtaken resolves with a route while the
\* phase is SELECTING_START, its result is discarded: no polyline is drawn on
\* the map and no route or ETA update is made.
C1_StaleResultDiscarded ==
    [][\A i \in 1..Len(fetches) : \A n \in 1..MaxCoords :
         (/\ selectionState = "SELECTING_START"
          /\ Stale(i)
          /\ JsonSettles(i, [kind |-> "route", n |-> n]))
            => /\ mapLayers' = mapLayers
               /\ queue'.path = queue.path
               /\ queue'.eta = queue.eta]_vars


\* Everything but the record of the last task.
machine == <<rendered, base, queue, matchIntervalRef, activeIntervals, mapLayers,
             fetches, nextId, tickPending>>

PointsChosen ==
    Len(markers) = 2 \/ selectionState \in {"PATH_CONFIRMED", "SEARCHING_FOR_MATCH", "MATCH_FOUND"}

\* C2: the rendered marker list never holds more than 2 markers, and once two
\* points are chosen a map click creates no marker and changes neither the
\* marker list nor the phase.
C2_AtMostTwoMarkers ==
    [][/\ Len(markers') <= 2
       /\ (event' = "mapClick" /\ PointsChosen)
            => /\ nextId' = nextId
               /\ mapLayers' = mapLayers
               /\ markers' = markers
               /\ selectionState' = selectionState]_vars

\* A third click on the map, made with the route drawn, has been handled.
C2_Witness ==
    event = "mapClick" /\ Len(markers) = 2 /\ path # NoPath /\ ~isLoading

\* What handleReset is to leave behind.
ResetState ==
    /\ selectionState = "SELECTING_START"
    /\ markers = <<>>
    /\ path = NoPath
    /\ eta = "null"
    /\ matchedUsersCount = 0
    /\ ~isLoading
    /\ ~matchIntervalRef
    /\ activeIntervals = 0

\* C3: every call of handleReset - by the reset, cancel or end button, or by
\* fetchRoute's catch block, whose updates the next render commits - leaves
\* SELECTING_START, no markers, no route, no ETA, count 0, loading false and
\* no timer.
C3_ResetLeavesInitialState ==
    [][(\/ event' \in {"reset", "cancel", "end"}
        \/ alertShown /\ event' = "render")
          => ResetState']_vars

FetchFailures == {"network_error", "http_error"}

JsonFailures == {o \in JsonOutcomes : o.kind # "route" \/ FitBoundsThrows(o.n)}

\* The fetch i, started by the rendered markers in PATH_CONFIRMED, fails in
\* this step.
FailsNow(i) ==
    /\ selectionState = "PATH_CONFIRMED"
    /\ ~Stale(i)
    /\ \/ \E o \in FetchFailures : FetchSettles(i, o)
       \/ \E o \in JsonFailures : JsonSettles(i, o)

\* C4: a route fetch that fails in PATH_CONFIRMED, at whatever step, alerts
\* the user and takes both markers off the map, and the render of its updates
\* leaves SELECTING_START with no markers, no route, no ETA and loading false.
C4_FailureResetsFully ==
    [][/\ \A i \in 1..Len(fetches) :
            FailsNow(i) => alertShown' /\ mapLayers' \cap Handles(markers) = {}
       /\ (alertShown /\ selectionState = "PATH_CONFIRMED" /\ event' = "render")
            => /\ selectionState' = "SELECTING_START"
               /\ markers' = <<>>
               /\ path' = NoPath
               /\ eta' = "null"
               /\ ~isLoading']_vars

\* C5: a map click made in PATH_CONFIRMED, SEARCHING_FOR_MATCH or MATCH_FOUND,
\* or with the loading flag rendered true, changes nothing and queues nothing.
C5_ClickDropped ==
    [][(/\ event' = "mapClick"
        /\ \/ selectionState \in {"PATH_CONFIRMED", "SEARCHING_FOR_MATCH", "MATCH_FOUND"}
           \/ isLoading)
          => UNCHANGED machine]_vars

\* A click has been handled while the route fetch was loading.
C5_Witness ==
    event = "mapClick" /\ isLoading /\ fetches # <<>>

\* C6: at most one fetch is ever in flight, and a fetch is only ever issued by
\* the click that places the second point.
C6_OneFetchPerEpisode ==
    [][/\ Len(fetches') <= 1
       /\ Len(fetches') > Len(fetches)
            => event' = "mapClick" /\ selectionState = "SELECTING_END"]_vars

\* No user event and no reset has come between the queued updates.
Undisturbed ==
    \A h \in Hooks : \A k \in 1..Len(queue[h]) :
        /\ queue[h][k].lane = "default"
        /\ h = "selectionState" => queue[h][k].v # "SELECTING_START"

\* C7: while the search runs undisturbed the count starts at 0, each tick's
\* render raises it by exactly 1 up to 3, MATCH_FOUND is entered at the tick
\* that makes it 3 and at no other, and from then on no timer is running.
C7_CountsToThree ==
    [][/\ (selectionState # "SEARCHING_FOR_MATCH" /\ selectionState' = "SEARCHING_FOR_MATCH")
            => matchedUsersCount' = 0
       /\ (tickPending /\ Undisturbed /\ event' = "render")
            => /\ selectionState = "SEARCHING_FOR_MATCH"
               /\ matchedUsersCount' = matchedUsersCount + 1
               /\ matchedUsersCount' <= MatchThreshold
               /\ selectionState' = "MATCH_FOUND" <=> matchedUsersCount' = MatchThreshold
               /\ selectionState' = "MATCH_FOUND" => activeIntervals' = 0
       /\ (selectionState = "MATCH_FOUND" /\ event' = "tick") => FALSE]_vars

\* The third tick has been rendered.
C7_Witness ==
    /\ event = "render"
    /\ selectionState = "MATCH_FOUND"
    /\ matchedUsersCount = MatchThreshold

\* C8: once a search has been cancelled (the phase is back in the selection
\* phases) no tick takes effect: the phase does not become MATCH_FOUND, the
\* count stays 0 and no timer runs.
C8_CancelStopsSimulation ==
    [][(selectionState \in {"SELECTING_START", "SELECTING_END", "PATH_CONFIRMED"})
          => (/\ selectionState' # "MATCH_FOUND"
              /\ (selectionState' \in {"SELECTING_START", "SELECTING_END", "PATH_CONFIRMED"})
                   => (matchedUsersCount' = 0 /\ activeIntervals' = 0))]_vars

\* C9: at most one timer is running, the ref holds it, and one runs only
\* while the phase is SEARCHING_FOR_MATCH.
C9_OneTimerWhileSearching ==
    /\ activeIntervals <= 1
    /\ matchIntervalRef <=> activeIntervals = 1
    /\ activeIntervals = 1 => selectionState = "SEARCHING_FOR_MATCH"

\* The cancel button has been pressed during a search and its reset rendered.
C9_Witness ==
    /\ event = "cancel"
    /\ selectionState = "SELECTING_START"
    /\ activeIntervals = 0
    /\ ~matchIntervalRef

\* C10: a route that is stored has at least 2 coordinates.
C10_StoredRouteHasTwoPoints ==
    path # NoPath => path.pts >= 2

\* The layers the rendered state accounts for: its marker handles and its
\* polyline.
Tracked == Handles(markers) \cup (IF path # NoPath THEN {path.id} ELSE {})

\* C11: once every queued update is rendered, the map holds at most two
\* markers and one polyline, every layer on the map is a marker or the
\* polyline held in the state, and in SELECTING_START with no fetch in flight
\* the map holds no marker and no polyline.
C11_OverlaysTracked ==
    NothingPending =>
        /\ Len(markers) <= 2
        /\ mapLayers \subseteq Tracked
        /\ (selectionState = "SELECTING_START" /\ fetches = <<>>) => mapLayers = {}

\* C12: the match counter is in 0..3, is 0 whenever the phase is not a match
\* phase, changes only by +1 (a tick rendered while SEARCHING_FOR_MATCH) or
\* to 0, and is 3 in every state whose phase is MATCH_FOUND.
C12_CounterRange ==
    [][/\ matchedUsersCount' \in 0..MatchThreshold
       /\ (matchedUsersCount' # matchedUsersCount) =>
             \/ matchedUsersCount' = 0
             \/ (selectionState = "SEARCHING_FOR_MATCH"
                  /\ matchedUsersCount' = matchedUsersCount + 1)
       /\ (selectionState' = "SEARCHING_FOR_MATCH"
            /\ selectionState # "SEARCHING_FOR_MATCH") => matchedUsersCount' = 0
       /\ (selectionState' = "MATCH_FOUND") => matchedUsersCount' = MatchThreshold]_vars

\* C17: the loading flag is set only in PATH_CONFIRMED with two markers and a
\* fetch in flight.
C17_LoadingOnlyWhileFetching ==
    isLoading => /\ selectionState = "PATH_CONFIRMED"
                 /\ Len(markers) = 2
                 /\ fetches # <<>>

\* The transitions of the phase table.
Tabled ==
    {<<"SELECTING_START", "SELECTING_END">>,
     <<"SELECTING_END", "PATH_CONFIRMED">>,
     <<"PATH_CONFIRMED", "SEARCHING_FOR_MATCH">>,
     <<"SEARCHING_FOR_MATCH", "MATCH_FOUND">>,
     <<"PATH_CONFIRMED", "SELECTING_START">>,
     <<"SEARCHING_FOR_MATCH", "SELECTING_START">>,
     <<"MATCH_FOUND", "SELECTING_START">>}

\* C18: every change of the rendered phase is a tabled transition.
C18_OnlyTabledTransitions ==
    [][selectionState' # selectionState
         => <<selectionState, selectionState'>> \in Tabled]_vars

\* C19: the phase determines the number of markers held.
C19_MarkersPerPhase ==
    Len(markers) = CASE selectionState = "SELECTING_START" -> 0
                     [] selectionState = "SELECTING_END" -> 1
                     [] OTHER -> 2

\* C20: in the match phases a polyline and an ETA are stored and no fetch is
\* in flight.
C20_MatchPhasesHaveRoute ==
    selectionState \in {"SEARCHING_FOR_MATCH", "MATCH_FOUND"}
        => /\ path # NoPath
           /\ eta # "null"
           /\ fetches = <<>>

\* The call under study has been made.
Called == codec.outcome # "not called"

\* C13 as stated: decodePolyline of the fixture string returns the two
\* points (38.5, -120.2), (40.7, -120.95).
C13_FixtureIsTwoPoints ==
    (Called /\ codec.encoded = Fixture)
        => /\ codec.outcome = "returned"
           /\ codec.path = << <<3850000, -12020000>>, <<4070000, -12095000>> >>

\* C13: decodePolyline of the fixture string returns the three points
\* (38.5, -120.2), (40.7, -120.95), (43.252, -126.453).
C13_FixtureIsThreePoints ==
    (Called /\ codec.encoded = Fixture)
        => /\ codec.outcome = "returned"
           /\ codec.path = FixtureRoute

C13_Witness == Called /\ codec.encoded = Fixture

\* The number of groups of s that are complete.
RECURSIVE CompleteGroups(_)
CompleteGroups(s) ==
    IF s = <<>> THEN 0
    ELSE CompleteGroups(Tail(s)) + (IF Head(s) - 63 < 32 THEN 1 ELSE 0)

\* s ends in the middle of a group or between a latitude and its longitude.
EndsMidGroup(s) ==
    s # <<>> /\ (s[Len(s)] - 63 >= 32 \/ CompleteGroups(s) % 2 = 1)

\* C14: a call on a string that ends mid-group fails with a DecodeError and
\* gives no coordinates, and no call reads at or past the end of its string.
C14_TruncatedInputFails ==
    Called => /\ codec.index <= Len(codec.encoded)
              /\ EndsMidGroup(codec.encoded)
                   => (codec.outcome = "DecodeError" /\ codec.path = <<>>)

Distance(a, b) == IF a < b THEN b - a ELSE a - b

\* C15: decoding what the reference encoder made of a route gives a path of
\* the same length whose points are, in order and per component, within one
\* unit of 1e-5 degree of the route's.
C15_RoundTrip ==
    (Called /\ codec.encoded = Encode(codec.source))
        => /\ codec.outcome = "returned"
           /\ Len(codec.path) = Len(codec.source)
           /\ \A i \in 1..Len(codec.source) : \A k \in 1..2 :
                 Distance(codec.path[i][k], codec.source[i][k]) <= 1

C15_Witness ==
    /\ Called
    /\ codec.encoded = Encode(codec.source)
    /\ Len(codec.source) >= 2
    /\ codec.source[2][1] < codec.source[1][1]
    /\ codec.source[2][2] > codec.source[1][2]

\* The click that places the second point.
SecondPointPlaced ==
    event' = "mapClick" /\ selectionState = "SELECTING_END" /\ nextId' # nextId

\* C16: without an API key, the click that places the second point alerts
\* the user and takes both markers off the map; the render that follows
\* leaves SELECTING_START, no marker, no route, isLoading false and the map
\* click handler registered; whenever nothing is pending the phase is not
\* PATH_CONFIRMED and no route or loading flag is held; and a click in
\* SELECTING_START places a start point.
C16_MissingKeyResets ==
    [][~apiKey =>
         /\ SecondPointPlaced => (alertShown' /\ mapLayers' = {})
         /\ (alertShown /\ event' = "render") =>
               /\ selectionState' = "SELECTING_START"
               /\ markers' = <<>>
               /\ path' = NoPath
               /\ eta' = "null"
               /\ ~isLoading'
               /\ NothingPending'
               /\ G_ClickHandlerRegistered(rendered')
         /\ NothingPending' =>
               /\ selectionState' # "PATH_CONFIRMED"
               /\ path' = NoPath
               /\ ~isLoading'
               /\ mapLayers' = Handles(markers')
         /\ (selectionState = "SELECTING_START" /\ event' = "mapClick") =>
               (selectionState' = "SELECTING_END" /\ Len(markers') = 1)]_vars

\* The click after a missing-key reset has placed a new start point.
C16_Witness ==
    /\ ~apiKey
    /\ event = "mapClick"
    /\ selectionState = "SELECTING_END"
    /\ markers = <<3>>
    /\ mapLayers = {3}
    /\ NothingPending

\* The two states a fetch may leave: the route shown, or nothing held.
RouteShown ==
    /\ selectionState = "PATH_CONFIRMED"
    /\ Len(markers) = 2
    /\ path # NoPath
    /\ eta # "null"

NothingHeld ==
    /\ selectionState = "SELECTING_START"
    /\ markers = <<>>
    /\ path = NoPath
    /\ eta = "null"

\* C21: whenever isLoading is true it is false again later, and the render
\* that sets it back to false leaves PATH_CONFIRMED with a route and an ETA
\* or SELECTING_START with nothing held.
C21_FetchSettles ==
    /\ isLoading ~> ~isLoading
    /\ [][(isLoading /\ ~isLoading') => (RouteShown' \/ NothingHeld')]_vars


====
